---- MODULE Spec2Model ----
(***************************************************************************)
(* Change-request approval workflow of the prompt-enhancer application:    *)
(* ChangeRequestService (one JSON file per change request, one JSON file   *)
(* per organization prompt document), the HTTP routes composed around it,  *)
(* the direct prompt-save route, and UserService role updates.             *)
(***************************************************************************)
EXTENDS Integers, FiniteSets, Sequences

VARIABLES
    requests,      \* change_requests/<id>.json : request id -> ChangeRequest
    nextId,        \* ghost: number of ids handed out by uuid4 so far
    docs,          \* organization/<file>.json per prompt type (Absent: no file)
    roles,         \* users table: user id -> role
    now,           \* the wall clock read by datetime.now()
    last,          \* ghost: the operation that completed last and its outcome
    writtenSince,  \* ghost: ids whose prompt document was written since create
    pc,            \* per worker: position inside a running handler
    loc,           \* per worker: local variables of the running handler
    personal,      \* prompt type -> document of a personal workspace
    agent          \* AnalysisAgent: configured categories, last call, result

vars == <<requests, nextId, docs, roles, now, last, writtenSince, pc, loc, personal,
          agent>>

----------------------------------------------------------------------------
(* Bounds of the model *)

MaxRequests == 2    \* change requests created in one execution
MaxOps == 4         \* handlers run in one execution

(* Enumerations and input sets *)

PromptType == {"CATEGORY_DEFINITIONS", "FEW_SHOTS", "SYSTEM_PROMPT"}

PENDING == "PENDING"
APPROVED == "APPROVED"
REJECTED == "REJECTED"
ChangeRequestStatus == {PENDING, APPROVED, REJECTED}

USER == "USER"
APPROVER == "APPROVER"
UserRole == {USER, APPROVER}

ORGANIZATION_WORKSPACE_ID == "organization"

None == "None"
NoTime == 0
Absent == "absent"

Users == {"u1", "u2", "u3"}     \* the rows of the users table
Actors == {"u1", "u2"}          \* the users who call the change-request API
Workers == {"w1", "w2"}         \* request-handling workers running at once
InputTypes == {"CATEGORY_DEFINITIONS", "FEW_SHOTS"}
Contents == {"c1"}
Descriptions == {"d"}
Feedbacks == {"f"}
RequestIds == 1..MaxRequests

----------------------------------------------------------------------------
(* Content snapshot store *)

(* The empty structure of the category definitions, whatever the type *)
empty_categories_for_every_type(prompt_type) == "{categories: []}"

get_empty_content_for_type(prompt_type) ==
    CASE prompt_type = "CATEGORY_DEFINITIONS" -> "{categories: []}"
      [] prompt_type = "FEW_SHOTS" -> "{examples: []}"
      [] prompt_type = "SYSTEM_PROMPT" -> "{content: ''}"

load_current_content(dcs, prompt_type) ==
    IF dcs[prompt_type] = Absent
    THEN get_empty_content_for_type(prompt_type)
    ELSE dcs[prompt_type]

save_prompt_content(dcs, prompt_type, content) ==
    [dcs EXCEPT ![prompt_type] = content]

(* Change request repository *)

save_change_request(reqs, id, change_request) ==
    [i \in DOMAIN reqs \cup {id} |-> IF i = id THEN change_request ELSE reqs[i]]

unlink(reqs, id) == [i \in DOMAIN reqs \ {id} |-> reqs[i]]

has_pending_request(reqs, user_id, prompt_type) ==
    \E i \in DOMAIN reqs :
        /\ reqs[i].submitted_by = user_id
        /\ reqs[i].prompt_type = prompt_type
        /\ reqs[i].status = PENDING

count_pending_requests(reqs) ==
    Cardinality({i \in DOMAIN reqs : reqs[i].status = PENDING})

get_change_request(reqs, request_id) ==
    IF request_id \notin DOMAIN reqs
    THEN "ChangeRequestNotFoundError"
    ELSE reqs[request_id]

(* change_requests_dir.glob("*.json"): the stored files in any order *)
glob(reqs) ==
    {files \in [1..Cardinality(DOMAIN reqs) -> DOMAIN reqs] :
        \A i \in DOMAIN reqs : \E k \in DOMAIN files : files[k] = i}

(* No sort: the requests in the order glob yielded them *)
in_glob_order(reqs, ids) == ids

(* sorted(requests, key=lambda r: r.submitted_at, reverse=True): stable,   *)
(* requests with equal keys keep the order they had in the input           *)
RECURSIVE sorted_by_submitted_at_reverse(_, _)
sorted_by_submitted_at_reverse(reqs, ids) ==
    IF ids = << >>
    THEN << >>
    ELSE LET front == sorted_by_submitted_at_reverse(
                          reqs, SubSeq(ids, 1, Len(ids) - 1))
             x == ids[Len(ids)]
             NotLater(j) == reqs[j].submitted_at >= reqs[x].submitted_at
             Earlier(j) == reqs[j].submitted_at < reqs[x].submitted_at
         IN  SelectSeq(front, NotLater) \o <<x>> \o SelectSeq(front, Earlier)

(* The result is the sequence of the ids of the requests returned; files   *)
(* is the order in which glob yields them, status None means no filter.    *)
list_change_requests(reqs, files, status) ==
    LET Kept(i) == status = None \/ reqs[i].status = status
    IN  sorted_by_submitted_at_reverse(reqs, SelectSeq(files, Kept))

(* Outcome of a service call: the files after it, the exception raised     *)
(* ("ok" when it returned) and the prompt types whose file it wrote.       *)
Outcome(reqs, dcs, raised, wrote) ==
    [requests |-> reqs, docs |-> dcs, raised |-> raised, wrote |-> wrote]

----------------------------------------------------------------------------
(* ChangeRequestService *)

(* create_change_request without the duplicate-pending check *)
create_without_duplicate_check(reqs, dcs, request_id, user_id, prompt_type, proposed_content, description, time) ==
    Outcome([i \in DOMAIN reqs \cup {request_id} |->
                IF i = request_id
                THEN [id |-> request_id,
                      workspace_id |-> "organization",
                      prompt_type |-> prompt_type,
                      submitted_by |-> user_id,
                      submitted_at |-> time,
                      status |-> "PENDING",
                      current_content |->
                          IF dcs[prompt_type] = "absent"
                          THEN get_empty_content_for_type(prompt_type)
                          ELSE dcs[prompt_type],
                      proposed_content |-> proposed_content,
                      description |-> description,
                      reviewed_by |-> "None",
                      reviewed_at |-> 0,
                      review_feedback |-> "None"]
                ELSE reqs[i]],
            dcs, "ok", {})

create_change_request(reqs, dcs, request_id, user_id, prompt_type, proposed_content, description, time) ==
    IF has_pending_request(reqs, user_id, prompt_type)
    THEN Outcome(reqs, dcs, "DuplicatePendingRequestError", {})
    ELSE LET change_request ==
                 [id |-> request_id,
                  workspace_id |-> ORGANIZATION_WORKSPACE_ID,
                  prompt_type |-> prompt_type,
                  submitted_by |-> user_id,
                  submitted_at |-> time,
                  status |-> PENDING,
                  current_content |-> load_current_content(dcs, prompt_type),
                  proposed_content |-> proposed_content,
                  description |-> description,
                  reviewed_by |-> None,
                  reviewed_at |-> NoTime,
                  review_feedback |-> None]
         IN  Outcome(save_change_request(reqs, request_id, change_request),
                     dcs, "ok", {})

(* approve_change_request without the conflict check *)
approve_without_conflict_check(reqs, dcs, request_id, reviewer_id, feedback, time) ==
    IF request_id \notin DOMAIN reqs
    THEN Outcome(reqs, dcs, "ChangeRequestNotFoundError", {})
    ELSE Outcome(
             save_change_request(reqs, request_id,
                 [reqs[request_id] EXCEPT
                      !.status = APPROVED,
                      !.reviewed_by = reviewer_id,
                      !.reviewed_at = time,
                      !.review_feedback = feedback]),
             save_prompt_content(dcs, reqs[request_id].prompt_type,
                                 reqs[request_id].proposed_content),
             "ok", {reqs[request_id].prompt_type})

(* approve_change_request that marks the request APPROVED but does not     *)
(* write the proposed content to the prompt file                           *)
approve_without_apply(reqs, dcs, request_id, reviewer_id, feedback, time) ==
    IF request_id \notin DOMAIN reqs
    THEN Outcome(reqs, dcs, "ChangeRequestNotFoundError", {})
    ELSE IF load_current_content(dcs, reqs[request_id].prompt_type)
                # reqs[request_id].current_content
         THEN Outcome(reqs, dcs, "ChangeRequestConflictError", {})
         ELSE Outcome(
                  save_change_request(reqs, request_id,
                      [reqs[request_id] EXCEPT
                           !.status = APPROVED,
                           !.reviewed_by = reviewer_id,
                           !.reviewed_at = time,
                           !.review_feedback = feedback]),
                  dcs, "ok", {})

(* approve_change_request that records the reviewer before it compares    *)
(* the live document with the snapshot                                     *)
approve_recording_before_check(reqs, dcs, request_id, reviewer_id, feedback, time) ==
    IF request_id \notin DOMAIN reqs
    THEN Outcome(reqs, dcs, "ChangeRequestNotFoundError", {})
    ELSE IF load_current_content(dcs, reqs[request_id].prompt_type)
                # reqs[request_id].current_content
         THEN Outcome(
                  save_change_request(reqs, request_id,
                      [reqs[request_id] EXCEPT
                           !.reviewed_by = reviewer_id,
                           !.reviewed_at = time,
                           !.review_feedback = feedback]),
                  dcs, "ChangeRequestConflictError", {})
         ELSE Outcome(
                  save_change_request(reqs, request_id,
                      [reqs[request_id] EXCEPT
                           !.status = APPROVED,
                           !.reviewed_by = reviewer_id,
                           !.reviewed_at = time,
                           !.review_feedback = feedback]),
                  save_prompt_content(dcs, reqs[request_id].prompt_type,
                                      reqs[request_id].proposed_content),
                  "ok", {reqs[request_id].prompt_type})

(* approve_change_request that records the applied content as the         *)
(* request's snapshot                                                      *)
approve_resnapshotting(reqs, dcs, request_id, reviewer_id, feedback, time) ==
    IF request_id \notin DOMAIN reqs
    THEN Outcome(reqs, dcs, "ChangeRequestNotFoundError", {})
    ELSE LET change_request == reqs[request_id]
             current_content ==
                 load_current_content(dcs, change_request.prompt_type)
         IN  IF current_content # change_request.current_content
             THEN Outcome(reqs, dcs, "ChangeRequestConflictError", {})
             ELSE Outcome(
                      save_change_request(reqs, request_id,
                          [change_request EXCEPT
                               !.status = APPROVED,
                               !.current_content =
                                   change_request.proposed_content,
                               !.reviewed_by = reviewer_id,
                               !.reviewed_at = time,
                               !.review_feedback = feedback]),
                      save_prompt_content(dcs, change_request.prompt_type,
                                          change_request.proposed_content),
                      "ok", {change_request.prompt_type})

approve_change_request(reqs, dcs, request_id, reviewer_id, feedback, time) ==
    IF request_id \notin DOMAIN reqs
    THEN Outcome(reqs, dcs, "ChangeRequestNotFoundError", {})
    ELSE LET change_request == reqs[request_id]
             current_content ==
                 load_current_content(dcs, change_request.prompt_type)
         IN  IF current_content # change_request.current_content
             THEN Outcome(reqs, dcs, "ChangeRequestConflictError", {})
             ELSE Outcome(
                      save_change_request(reqs, request_id,
                          [change_request EXCEPT
                               !.status = APPROVED,
                               !.reviewed_by = reviewer_id,
                               !.reviewed_at = time,
                               !.review_feedback = feedback]),
                      save_prompt_content(dcs, change_request.prompt_type,
                                          change_request.proposed_content),
                      "ok", {change_request.prompt_type})

(* reject_change_request that refuses a request that is not PENDING *)
reject_pending_only(reqs, dcs, request_id, reviewer_id, feedback, time) ==
    IF request_id \notin DOMAIN reqs
    THEN Outcome(reqs, dcs, "ChangeRequestNotFoundError", {})
    ELSE IF reqs[request_id].status # PENDING
         THEN Outcome(reqs, dcs, "InvalidChangeRequestStateError", {})
         ELSE Outcome(
                  save_change_request(reqs, request_id,
                      [reqs[request_id] EXCEPT
                           !.status = REJECTED,
                           !.reviewed_by = reviewer_id,
                           !.reviewed_at = time,
                           !.review_feedback = feedback]),
                  dcs, "ok", {})

reject_change_request(reqs, dcs, request_id, reviewer_id, feedback, time) ==
    IF request_id \notin DOMAIN reqs
    THEN Outcome(reqs, dcs, "ChangeRequestNotFoundError", {})
    ELSE Outcome(
             save_change_request(reqs, request_id,
                 [reqs[request_id] EXCEPT
                      !.status = REJECTED,
                      !.reviewed_by = reviewer_id,
                      !.reviewed_at = time,
                      !.review_feedback = feedback]),
             dcs, "ok", {})

(* revise_change_request that only refuses APPROVED requests *)
revise_unless_approved(reqs, dcs, request_id, proposed_content, description) ==
    IF request_id \notin DOMAIN reqs
    THEN Outcome(reqs, dcs, "ChangeRequestNotFoundError", {})
    ELSE IF reqs[request_id].status = APPROVED
         THEN Outcome(reqs, dcs, "InvalidChangeRequestStateError", {})
         ELSE Outcome(
                  save_change_request(reqs, request_id,
                      [reqs[request_id] EXCEPT
                           !.status = PENDING,
                           !.proposed_content = proposed_content,
                           !.current_content =
                               load_current_content(
                                   dcs, reqs[request_id].prompt_type),
                           !.description = description,
                           !.reviewed_by = None,
                           !.reviewed_at = NoTime,
                           !.review_feedback = None]),
                  dcs, "ok", {})

(* revise_change_request that keeps the snapshot taken at create *)
revise_without_resnapshot(reqs, dcs, request_id, proposed_content, description) ==
    IF request_id \notin DOMAIN reqs
    THEN Outcome(reqs, dcs, "ChangeRequestNotFoundError", {})
    ELSE IF reqs[request_id].status # REJECTED
         THEN Outcome(reqs, dcs, "InvalidChangeRequestStateError", {})
         ELSE Outcome(
                  save_change_request(reqs, request_id,
                      [reqs[request_id] EXCEPT
                           !.status = PENDING,
                           !.proposed_content = proposed_content,
                           !.description = description,
                           !.reviewed_by = None,
                           !.reviewed_at = NoTime,
                           !.review_feedback = None]),
                  dcs, "ok", {})

(* revise_change_request that leaves the review fields as the reviewer    *)
(* set them                                                                *)
revise_keeping_review(reqs, dcs, request_id, proposed_content, description) ==
    IF request_id \notin DOMAIN reqs
    THEN Outcome(reqs, dcs, "ChangeRequestNotFoundError", {})
    ELSE LET change_request == reqs[request_id]
         IN  IF change_request.status # REJECTED
             THEN Outcome(reqs, dcs, "InvalidChangeRequestStateError", {})
             ELSE Outcome(
                      save_change_request(reqs, request_id,
                          [change_request EXCEPT
                               !.status = PENDING,
                               !.proposed_content = proposed_content,
                               !.current_content =
                                   load_current_content(
                                       dcs, change_request.prompt_type),
                               !.description = description]),
                      dcs, "ok", {})

revise_change_request(reqs, dcs, request_id, proposed_content, description) ==
    IF request_id \notin DOMAIN reqs
    THEN Outcome(reqs, dcs, "ChangeRequestNotFoundError", {})
    ELSE LET change_request == reqs[request_id]
         IN  IF change_request.status # REJECTED
             THEN Outcome(reqs, dcs, "InvalidChangeRequestStateError", {})
             ELSE Outcome(
                      save_change_request(reqs, request_id,
                          [change_request EXCEPT
                               !.status = PENDING,
                               !.proposed_content = proposed_content,
                               !.current_content =
                                   load_current_content(
                                       dcs, change_request.prompt_type),
                               !.description = description,
                               !.reviewed_by = None,
                               !.reviewed_at = NoTime,
                               !.review_feedback = None]),
                      dcs, "ok", {})

(* withdraw_change_request without the status check *)
withdraw_any_status(reqs, dcs, request_id) ==
    IF request_id \notin DOMAIN reqs
    THEN Outcome(reqs, dcs, "ChangeRequestNotFoundError", {})
    ELSE Outcome(unlink(reqs, request_id), dcs, "ok", {})

withdraw_change_request(reqs, dcs, request_id) ==
    IF request_id \notin DOMAIN reqs
    THEN Outcome(reqs, dcs, "ChangeRequestNotFoundError", {})
    ELSE IF reqs[request_id].status # PENDING
         THEN Outcome(reqs, dcs, "InvalidChangeRequestStateError", {})
         ELSE Outcome(unlink(reqs, request_id), dcs, "ok", {})

(* PromptService.save_categories / save_few_shots / save_system_prompt *)
save_prompt(dcs, prompt_type, config) ==
    [dcs EXCEPT ![prompt_type] = config]

----------------------------------------------------------------------------
(* The state after __init__ / init_db: no change request, no prompt file.  *)

Idle == [w \in Workers |-> "idle"]

(* The agent before any call, with no category configured *)
NoAgent == [categories |-> << >>, called |-> "none", insight |-> "none",
            result |-> "none"]

NoLocals ==
    [w \in Workers |->
        [op |-> "none", id |-> 0, result |-> "none", pre |-> FALSE,
         concurrent |-> FALSE]]

NoOp == [op |-> "none", id |-> 0, outcome |-> "none", fresh |-> FALSE]

(* fresh: the call was an approve of a stored request whose prompt          *)
(* document had not been written since the request was created.            *)
Done(op, id, outcome) ==
    [op |-> op, id |-> id, outcome |-> outcome,
     fresh |-> /\ op = "approve"
               /\ id \in DOMAIN requests
               /\ id \notin writtenSince]

(* The outcome is that of a service method (not a refusal by a route).     *)
ServiceRan(l) ==
    l.outcome \in {"ok", "ChangeRequestNotFoundError",
                   "ChangeRequestConflictError",
                   "InvalidChangeRequestStateError",
                   "DuplicatePendingRequestError"}

Init ==
    /\ requests = [i \in {} |-> 0]
    /\ nextId = 1
    /\ docs = [t \in PromptType |-> Absent]
    /\ roles = [u \in Users |-> IF u = "u2" THEN APPROVER ELSE USER]
    /\ now = 1
    /\ last = NoOp
    /\ writtenSince = {}
    /\ pc = Idle
    /\ loc = NoLocals
    /\ personal = [t \in PromptType |-> Absent]
    /\ agent = NoAgent

(* The files and ghosts after a service call that ran to completion.       *)
Commit(r) ==
    /\ requests' = r.requests
    /\ docs' = r.docs
    /\ writtenSince' =
           (writtenSince \cup
               {i \in DOMAIN requests : requests[i].prompt_type \in r.wrote})
           \cap DOMAIN r.requests

(* Every handler takes time: the clock read by the next one is later.      *)
Tock == now <= MaxOps /\ now' = now + 1

Quiet == Tock /\ UNCHANGED <<roles, pc, loc, personal, agent>>

----------------------------------------------------------------------------
(* Direct calls of the service methods, one call at a time *)

Create(user_id, prompt_type, proposed_content, description) ==
    LET r == create_change_request(requests, docs, nextId, user_id,
                 prompt_type, proposed_content, description, now)
    IN  /\ r.raised = "ok" => nextId <= MaxRequests
        /\ Commit(r)
        /\ nextId' = IF r.raised = "ok" THEN nextId + 1 ELSE nextId
        /\ last' = Done("create", IF r.raised = "ok" THEN nextId ELSE 0,
                        r.raised)
        /\ Quiet

Approve(request_id, reviewer_id, feedback) ==
    LET r == approve_change_request(requests, docs, request_id, reviewer_id,
                                    feedback, now)
    IN  /\ Commit(r)
        /\ last' = Done("approve", request_id, r.raised)
        /\ UNCHANGED nextId
        /\ Quiet

Reject(request_id, reviewer_id, feedback) ==
    LET r == reject_change_request(requests, docs, request_id, reviewer_id,
                                   feedback, now)
    IN  /\ Commit(r)
        /\ last' = Done("reject", request_id, r.raised)
        /\ UNCHANGED nextId
        /\ Quiet

Revise(request_id, proposed_content, description) ==
    LET r == revise_change_request(requests, docs, request_id,
                                   proposed_content, description)
    IN  /\ Commit(r)
        /\ last' = Done("revise", request_id, r.raised)
        /\ UNCHANGED nextId
        /\ Quiet

Withdraw(request_id) ==
    LET r == withdraw_change_request(requests, docs, request_id)
    IN  /\ Commit(r)
        /\ last' = Done("withdraw", request_id, r.raised)
        /\ UNCHANGED nextId
        /\ Quiet

----------------------------------------------------------------------------
(* HTTP routes *)

(* Depends(get_current_approver): 403 unless the caller is an APPROVER *)
get_current_approver(rls, user_id) ==
    IF rls[user_id] = APPROVER THEN "ok" ELSE "HTTP_403"

Refuse(op, request_id, user_id, status) ==
    /\ last' = Done(op, request_id, status)
    /\ UNCHANGED <<requests, docs, writtenSince, nextId>>
    /\ Quiet

(* POST /change-requests *)
RouteCreate(current_user, prompt_type, proposed_content, description) ==
    LET r == create_change_request(requests, docs, nextId, current_user,
                 prompt_type, proposed_content, description, now)
    IN  /\ r.raised = "ok" => nextId <= MaxRequests
        /\ Commit(r)
        /\ nextId' = IF r.raised = "ok" THEN nextId + 1 ELSE nextId
        /\ last' = Done("create", IF r.raised = "ok" THEN nextId ELSE 0,
                        r.raised)
        /\ Quiet

(* The approve route without the check of submitted_by *)
RouteApprove_without_self_check(request_id, current_user, feedback) ==
    IF get_current_approver(roles, current_user) # "ok"
    THEN Refuse("approve", request_id, current_user, "HTTP_403")
    ELSE IF request_id \notin DOMAIN requests
    THEN Refuse("approve", request_id, current_user, "HTTP_404")
    ELSE IF requests[request_id].status # PENDING
    THEN Refuse("approve", request_id, current_user, "HTTP_409")
    ELSE LET r == approve_change_request(requests, docs, request_id,
                                         current_user, feedback, now)
         IN  /\ Commit(r)
             /\ last' = Done("approve", request_id, r.raised)
             /\ UNCHANGED nextId
             /\ Quiet

(* POST /change-requests/{request_id}/approve *)
RouteApprove(request_id, current_user, feedback) ==
    IF get_current_approver(roles, current_user) # "ok"
    THEN Refuse("approve", request_id, current_user, "HTTP_403")
    ELSE IF request_id \notin DOMAIN requests
    THEN Refuse("approve", request_id, current_user, "HTTP_404")
    ELSE IF requests[request_id].submitted_by = current_user
    THEN Refuse("approve", request_id, current_user, "HTTP_403")
    ELSE IF requests[request_id].status # PENDING
    THEN Refuse("approve", request_id, current_user, "HTTP_409")
    ELSE LET r == approve_change_request(requests, docs, request_id,
                                         current_user, feedback, now)
         IN  /\ Commit(r)
             /\ last' = Done("approve", request_id, r.raised)
             /\ UNCHANGED nextId
             /\ Quiet

(* The reject route open to every authenticated user *)
RouteReject_without_role_check(request_id, current_user, feedback) ==
    LET r == reject_change_request(requests, docs, request_id,
                                   current_user, feedback, now)
    IN  /\ Commit(r)
        /\ last' = Done("reject", request_id, r.raised)
        /\ UNCHANGED nextId
        /\ Quiet

(* POST /change-requests/{request_id}/reject *)
RouteReject(request_id, current_user, feedback) ==
    IF get_current_approver(roles, current_user) # "ok"
    THEN Refuse("reject", request_id, current_user, "HTTP_403")
    ELSE LET r == reject_change_request(requests, docs, request_id,
                                        current_user, feedback, now)
         IN  /\ Commit(r)
             /\ last' = Done("reject", request_id, r.raised)
             /\ UNCHANGED nextId
             /\ Quiet

(* POST /change-requests/{request_id}/revise *)
RouteRevise(request_id, current_user, proposed_content, description) ==
    IF request_id \notin DOMAIN requests
    THEN Refuse("revise", request_id, current_user, "HTTP_404")
    ELSE IF requests[request_id].submitted_by # current_user
    THEN Refuse("revise", request_id, current_user, "HTTP_403")
    ELSE LET r == revise_change_request(requests, docs, request_id,
                                        proposed_content, description)
         IN  /\ Commit(r)
             /\ last' = Done("revise", request_id, r.raised)
             /\ UNCHANGED nextId
             /\ Quiet

(* The withdraw route without the check of submitted_by *)
RouteWithdraw_without_owner_check(request_id, current_user) ==
    IF request_id \notin DOMAIN requests
    THEN Refuse("withdraw", request_id, current_user, "HTTP_404")
    ELSE LET r == withdraw_change_request(requests, docs, request_id)
         IN  /\ Commit(r)
             /\ last' = Done("withdraw", request_id, r.raised)
             /\ UNCHANGED nextId
             /\ Quiet

(* DELETE /change-requests/{request_id} *)
RouteWithdraw(request_id, current_user) ==
    IF request_id \notin DOMAIN requests
    THEN Refuse("withdraw", request_id, current_user, "HTTP_404")
    ELSE IF requests[request_id].submitted_by # current_user
    THEN Refuse("withdraw", request_id, current_user, "HTTP_403")
    ELSE LET r == withdraw_change_request(requests, docs, request_id)
         IN  /\ Commit(r)
             /\ last' = Done("withdraw", request_id, r.raised)
             /\ UNCHANGED nextId
             /\ Quiet

(* PUT on an organization prompt without the role check: saves directly *)
RouteSavePrompt_without_role_check(current_user, prompt_type, config) ==
    /\ Commit(Outcome(requests, save_prompt(docs, prompt_type, config),
                      "ok", {prompt_type}))
    /\ last' = Done("save_prompt", 0, "saved")
    /\ UNCHANGED nextId
    /\ Quiet

(* PUT /workspaces/organization/prompts/{categories,few-shots,system-prompt} *)
RouteSavePrompt(current_user, prompt_type, config) ==
    IF roles[current_user] # APPROVER
    THEN LET r == create_change_request(requests, docs, nextId, current_user,
                      prompt_type, config, None, now)
         IN  /\ r.raised = "ok" => nextId <= MaxRequests
             /\ Commit(r)
             /\ nextId' = IF r.raised = "ok" THEN nextId + 1 ELSE nextId
             /\ last' = Done("save_prompt",
                             IF r.raised = "ok" THEN nextId ELSE 0, r.raised)
             /\ Quiet
    ELSE /\ Commit(Outcome(requests, save_prompt(docs, prompt_type, config),
                           "ok", {prompt_type}))
         /\ last' = Done("save_prompt", 0, "saved")
         /\ UNCHANGED nextId
         /\ Quiet

(* Workspaces a PUT can name: the organization workspace, a personal       *)
(* workspace and an id for which no workspace exists.                      *)
WorkspaceIds == {"organization", "ws1", "ws0"}

(* get_prompt_service: 404 unless the workspace exists *)
get_prompt_service(workspace_id) ==
    IF workspace_id \in {"organization", "ws1"} THEN "ok" ELSE "HTTP_404"

(* PUT on every workspace sends the request through create_change_request *)
RouteSavePromptIn_always_request(workspace_id, current_user, prompt_type, config) ==
    LET r == create_change_request(requests, docs, nextId, current_user,
                 prompt_type, config, None, now)
    IN  /\ r.raised = "ok" => nextId <= MaxRequests
        /\ Commit(r)
        /\ nextId' = IF r.raised = "ok" THEN nextId + 1 ELSE nextId
        /\ last' = Done("save_prompt",
                        IF r.raised = "ok" THEN nextId ELSE 0, r.raised)
        /\ Quiet

(* PUT /workspaces/{workspace_id}/prompts/{categories,few-shots,system-prompt} *)
RouteSavePromptIn(workspace_id, current_user, prompt_type, config) ==
    IF get_prompt_service(workspace_id) # "ok"
    THEN Refuse("save_prompt", 0, current_user, "HTTP_404")
    ELSE IF workspace_id = ORGANIZATION_WORKSPACE_ID
    THEN RouteSavePrompt(current_user, prompt_type, config)
    ELSE /\ personal' = save_prompt(personal, prompt_type, config)
         /\ last' = Done("save_prompt", 0, "saved")
         /\ Tock
         /\ UNCHANGED <<requests, nextId, docs, roles, writtenSince, pc, loc,
                        agent>>

----------------------------------------------------------------------------
(* Sequential executions: every handler runs to completion before the next *)

Next ==
    \/ \E u \in Actors, t \in InputTypes, c \in Contents, d \in Descriptions :
           Create(u, t, c, d)
    \/ \E i \in RequestIds, u \in Actors, f \in Feedbacks : Approve(i, u, f)
    \/ \E i \in RequestIds, u \in Actors, f \in Feedbacks : Reject(i, u, f)
    \/ \E i \in RequestIds, c \in Contents, d \in Descriptions :
           Revise(i, c, d)
    \/ \E i \in RequestIds : Withdraw(i)
    \/ \E u \in Actors, t \in InputTypes, c \in Contents, d \in Descriptions :
           RouteCreate(u, t, c, d)
    \/ \E i \in RequestIds, u \in Actors, f \in Feedbacks : RouteApprove(i, u, f)
    \/ \E i \in RequestIds, u \in Actors, f \in Feedbacks : RouteReject(i, u, f)
    \/ \E i \in RequestIds, u \in Actors, c \in Contents, d \in Descriptions :
           RouteRevise(i, u, c, d)
    \/ \E i \in RequestIds, u \in Actors : RouteWithdraw(i, u)
    \/ \E u \in Actors, t \in InputTypes, c \in Contents :
           RouteSavePrompt(u, t, c)

Spec == Init /\ [][Next]_vars

----------------------------------------------------------------------------
(* Executions on one organization document with distinguishable contents   *)
(* and descriptions, calling the service directly and writing the document *)
(* through the PUT route.                                                  *)

OneType == {"CATEGORY_DEFINITIONS"}
Contents2 == {"c1", "c2"}
Descriptions2 == {"d1", "d2"}

NextContent ==
    \/ \E u \in Actors, t \in OneType, c \in Contents2, d \in Descriptions2 :
           Create(u, t, c, d)
    \/ \E i \in RequestIds, u \in Actors, f \in Feedbacks : Approve(i, u, f)
    \/ \E i \in RequestIds, u \in Actors, f \in Feedbacks : Reject(i, u, f)
    \/ \E i \in RequestIds, c \in Contents2, d \in Descriptions2 :
           Revise(i, c, d)
    \/ \E i \in RequestIds : Withdraw(i)
    \/ \E u \in Actors, t \in OneType, c \in Contents2 :
           RouteSavePrompt(u, t, c)

(* The state after one submission: u1 has proposed "c1" for the category   *)
(* definitions at time 0, when no organization document existed yet.       *)
InitContent ==
    /\ requests = create_change_request([i \in {} |-> 0],
                       [t \in PromptType |-> Absent], 1, "u1",
                       "CATEGORY_DEFINITIONS", "c1", "d1", 0).requests
    /\ nextId = 2
    /\ docs = [t \in PromptType |-> Absent]
    /\ roles = [u \in Users |-> IF u = "u2" THEN APPROVER ELSE USER]
    /\ now = 1
    /\ last = NoOp
    /\ writtenSince = {}
    /\ pc = Idle
    /\ loc = NoLocals
    /\ personal = [t \in PromptType |-> Absent]
    /\ agent = NoAgent

SpecContent == InitContent /\ [][NextContent]_vars

----------------------------------------------------------------------------
(* Executions on the three organization documents: submissions, direct     *)
(* writes and approvals.                                                   *)

NextSnapshot ==
    \/ \E u \in Actors, t \in PromptType, c \in Contents, d \in Descriptions :
           Create(u, t, c, d)
    \/ \E i \in RequestIds, u \in Actors, f \in Feedbacks : Approve(i, u, f)
    \/ \E u \in Actors, t \in PromptType, c \in Contents :
           RouteSavePrompt(u, t, c)

SpecSnapshot == Init /\ [][NextSnapshot]_vars

----------------------------------------------------------------------------
(* approve_change_request run by concurrent workers, one step per file     *)
(* read or write.  loc[w].pre and loc[w].concurrent are ghosts: the        *)
(* request was PENDING with its snapshot equal to the live document when   *)
(* the call began, and another worker's approve was then in flight.        *)

Busy(w) == pc[w] # "idle"

(* change_request = self.get_change_request(request_id) *)
ApproveGet(w, request_id, reviewer_id, feedback) ==
    /\ pc[w] = "idle"
    /\ Tock
    /\ IF request_id \notin DOMAIN requests
       THEN /\ loc' = [loc EXCEPT ![w] =
                          [op |-> "approve", id |-> request_id,
                           result |-> "ChangeRequestNotFoundError",
                           pre |-> FALSE, concurrent |-> FALSE]]
            /\ last' = Done("approve", request_id,
                            "ChangeRequestNotFoundError")
            /\ UNCHANGED pc
       ELSE /\ loc' = [loc EXCEPT ![w] =
                          [op |-> "approve", id |-> request_id,
                           reviewer_id |-> reviewer_id,
                           feedback |-> feedback,
                           change_request |-> requests[request_id],
                           result |-> "none",
                           pre |-> /\ requests[request_id].status = PENDING
                                   /\ requests[request_id].current_content =
                                          load_current_content(docs,
                                              requests[request_id].prompt_type),
                           concurrent |-> \E v \in Workers \ {w} : Busy(v)]]
            /\ pc' = [pc EXCEPT ![w] = "approve_check"]
            /\ UNCHANGED last
    /\ UNCHANGED <<requests, nextId, docs, roles, writtenSince, personal, agent>>

(* current_content = self._load_current_content(...); the conflict check *)
ApproveCheck(w) ==
    /\ pc[w] = "approve_check"
    /\ IF load_current_content(docs, loc[w].change_request.prompt_type)
              # loc[w].change_request.current_content
       THEN /\ loc' = [loc EXCEPT ![w].result = "ChangeRequestConflictError"]
            /\ pc' = [pc EXCEPT ![w] = "idle"]
            /\ last' = Done("approve", loc[w].id,
                            "ChangeRequestConflictError")
       ELSE /\ pc' = [pc EXCEPT ![w] = "approve_apply"]
            /\ UNCHANGED <<loc, last>>
    /\ UNCHANGED <<requests, nextId, docs, roles, now, writtenSince, personal, agent>>

(* self._save_prompt_content(prompt_type, proposed_content) *)
ApproveApply(w) ==
    /\ pc[w] = "approve_apply"
    /\ docs' = save_prompt_content(docs, loc[w].change_request.prompt_type,
                                   loc[w].change_request.proposed_content)
    /\ writtenSince' = writtenSince \cup
           {i \in DOMAIN requests :
               requests[i].prompt_type = loc[w].change_request.prompt_type}
    /\ pc' = [pc EXCEPT ![w] = "approve_save"]
    /\ UNCHANGED <<requests, nextId, roles, now, last, loc, personal, agent>>

(* the status update and self._save_change_request(change_request) *)
ApproveSave(w) ==
    /\ pc[w] = "approve_save"
    /\ requests' = save_change_request(requests, loc[w].id,
                       [loc[w].change_request EXCEPT
                            !.status = APPROVED,
                            !.reviewed_by = loc[w].reviewer_id,
                            !.reviewed_at = now,
                            !.review_feedback = loc[w].feedback])
    /\ loc' = [loc EXCEPT ![w].result = "ok"]
    /\ pc' = [pc EXCEPT ![w] = "idle"]
    /\ last' = Done("approve", loc[w].id, "ok")
    /\ UNCHANGED <<nextId, docs, roles, now, writtenSince, personal, agent>>

NextApproveRace ==
    \/ \E u \in Actors, t \in InputTypes, c \in Contents, d \in Descriptions :
           Create(u, t, c, d)
    \/ \E w \in Workers, i \in RequestIds, u \in Actors, f \in Feedbacks :
           ApproveGet(w, i, u, f)
    \/ \E w \in Workers : ApproveCheck(w)
    \/ \E w \in Workers : ApproveApply(w)
    \/ \E w \in Workers : ApproveSave(w)

SpecApproveRace == Init /\ [][NextApproveRace]_vars

----------------------------------------------------------------------------
(* create_change_request run by concurrent workers: the route handlers are *)
(* plain functions served from a thread pool and the service takes no      *)
(* lock, so the statements of two calls interleave. seen is the set of     *)
(* request files the scan of has_pending_request read.                     *)

(* if self.has_pending_request(user_id, prompt_type): raise ... *)
CreateScan(w, user_id, prompt_type, proposed_content, description) ==
    /\ pc[w] = "idle"
    /\ Tock
    /\ IF has_pending_request(requests, user_id, prompt_type)
       THEN /\ loc' = [loc EXCEPT ![w] =
                          [op |-> "create", id |-> 0,
                           user_id |-> user_id,
                           prompt_type |-> prompt_type,
                           seen |-> DOMAIN requests,
                           result |-> "DuplicatePendingRequestError",
                           pre |-> FALSE, concurrent |-> FALSE]]
            /\ last' = Done("create", 0, "DuplicatePendingRequestError")
            /\ UNCHANGED pc
       ELSE /\ loc' = [loc EXCEPT ![w] =
                          [op |-> "create", id |-> 0,
                           user_id |-> user_id,
                           prompt_type |-> prompt_type,
                           proposed_content |-> proposed_content,
                           description |-> description,
                           seen |-> DOMAIN requests,
                           result |-> "none",
                           pre |-> FALSE,
                           concurrent |-> \E v \in Workers \ {w} : Busy(v)]]
            /\ pc' = [pc EXCEPT ![w] = "create_build"]
            /\ UNCHANGED last
    /\ UNCHANGED <<requests, nextId, docs, roles, writtenSince, personal, agent>>

(* request_id = uuid4; current_content = self._load_current_content(...);  *)
(* change_request = ChangeRequest(...)                                     *)
CreateBuild(w) ==
    /\ pc[w] = "create_build"
    /\ nextId <= MaxRequests
    /\ loc' = [loc EXCEPT ![w] =
                  [op |-> "create", id |-> nextId,
                   user_id |-> loc[w].user_id,
                   prompt_type |-> loc[w].prompt_type,
                   seen |-> loc[w].seen,
                   change_request |->
                       [id |-> nextId,
                        workspace_id |-> "organization",
                        prompt_type |-> loc[w].prompt_type,
                        submitted_by |-> loc[w].user_id,
                        submitted_at |-> now,
                        status |-> PENDING,
                        current_content |->
                            load_current_content(docs, loc[w].prompt_type),
                        proposed_content |-> loc[w].proposed_content,
                        description |-> loc[w].description,
                        reviewed_by |-> None,
                        reviewed_at |-> NoTime,
                        review_feedback |-> None],
                   result |-> "none",
                   pre |-> FALSE,
                   concurrent |-> loc[w].concurrent]]
    /\ nextId' = nextId + 1
    /\ pc' = [pc EXCEPT ![w] = "create_save"]
    /\ UNCHANGED <<requests, docs, roles, now, last, writtenSince, personal, agent>>

(* A save that scans for a pending request again and writes nothing when *)
(* it finds one                                                            *)
CreateSave_rescanning(w) ==
    /\ pc[w] = "create_save"
    /\ IF has_pending_request(requests, loc[w].user_id, loc[w].prompt_type)
       THEN /\ loc' = [loc EXCEPT ![w].result = "DuplicatePendingRequestError"]
            /\ last' = Done("create", 0, "DuplicatePendingRequestError")
            /\ UNCHANGED requests
       ELSE /\ requests' = save_change_request(requests, loc[w].id,
                                               loc[w].change_request)
            /\ loc' = [loc EXCEPT ![w].result = "ok"]
            /\ last' = Done("create", loc[w].id, "ok")
    /\ pc' = [pc EXCEPT ![w] = "idle"]
    /\ UNCHANGED <<nextId, docs, roles, now, writtenSince, personal, agent>>

(* self._save_change_request(change_request); return change_request *)
CreateSave(w) ==
    /\ pc[w] = "create_save"
    /\ requests' = save_change_request(requests, loc[w].id,
                                       loc[w].change_request)
    /\ loc' = [loc EXCEPT ![w].result = "ok"]
    /\ pc' = [pc EXCEPT ![w] = "idle"]
    /\ last' = Done("create", loc[w].id, "ok")
    /\ UNCHANGED <<nextId, docs, roles, now, writtenSince, personal, agent>>

NextCreateRace ==
    \/ \E w \in Workers, u \in Actors, t \in InputTypes,
          c \in Contents, d \in Descriptions : CreateScan(w, u, t, c, d)
    \/ \E w \in Workers : CreateBuild(w)
    \/ \E w \in Workers : CreateSave(w)

SpecCreateRace == Init /\ [][NextCreateRace]_vars

----------------------------------------------------------------------------
(* withdraw_change_request racing with a review of the same request: the   *)
(* statements of withdraw, reject and approve calls run by concurrent      *)
(* workers interleave.                                                     *)

(* change_request = self.get_change_request(request_id) *)
RejectGet(w, request_id, reviewer_id, feedback) ==
    /\ pc[w] = "idle"
    /\ Tock
    /\ IF request_id \notin DOMAIN requests
       THEN /\ loc' = [loc EXCEPT ![w] =
                          [op |-> "reject", id |-> request_id,
                           result |-> "ChangeRequestNotFoundError",
                           pre |-> FALSE, concurrent |-> FALSE]]
            /\ last' = Done("reject", request_id,
                            "ChangeRequestNotFoundError")
            /\ UNCHANGED pc
       ELSE /\ loc' = [loc EXCEPT ![w] =
                          [op |-> "reject", id |-> request_id,
                           reviewer_id |-> reviewer_id,
                           feedback |-> feedback,
                           change_request |-> requests[request_id],
                           result |-> "none",
                           pre |-> requests[request_id].status = PENDING,
                           concurrent |-> \E v \in Workers \ {w} : Busy(v)]]
            /\ pc' = [pc EXCEPT ![w] = "reject_save"]
            /\ UNCHANGED last
    /\ UNCHANGED <<requests, nextId, docs, roles, writtenSince, personal, agent>>

(* the status update and self._save_change_request(change_request) *)
RejectSave(w) ==
    /\ pc[w] = "reject_save"
    /\ requests' = save_change_request(requests, loc[w].id,
                       [loc[w].change_request EXCEPT
                            !.status = REJECTED,
                            !.reviewed_by = loc[w].reviewer_id,
                            !.reviewed_at = now,
                            !.review_feedback = loc[w].feedback])
    /\ loc' = [loc EXCEPT ![w].result = "ok"]
    /\ pc' = [pc EXCEPT ![w] = "idle"]
    /\ last' = Done("reject", loc[w].id, "ok")
    /\ UNCHANGED <<nextId, docs, roles, now, writtenSince, personal, agent>>

(* change_request = self.get_change_request(request_id); the status check *)
WithdrawGet(w, request_id) ==
    /\ pc[w] = "idle"
    /\ Tock
    /\ IF request_id \notin DOMAIN requests
       THEN /\ loc' = [loc EXCEPT ![w] =
                          [op |-> "withdraw", id |-> request_id,
                           result |-> "ChangeRequestNotFoundError",
                           pre |-> FALSE, concurrent |-> FALSE]]
            /\ last' = Done("withdraw", request_id,
                            "ChangeRequestNotFoundError")
            /\ UNCHANGED pc
       ELSE IF requests[request_id].status # PENDING
       THEN /\ loc' = [loc EXCEPT ![w] =
                          [op |-> "withdraw", id |-> request_id,
                           result |-> "InvalidChangeRequestStateError",
                           pre |-> FALSE, concurrent |-> FALSE]]
            /\ last' = Done("withdraw", request_id,
                            "InvalidChangeRequestStateError")
            /\ UNCHANGED pc
       ELSE /\ loc' = [loc EXCEPT ![w] =
                          [op |-> "withdraw", id |-> request_id,
                           change_request |-> requests[request_id],
                           result |-> "none",
                           pre |-> TRUE,
                           concurrent |-> \E v \in Workers \ {w} : Busy(v)]]
            /\ pc' = [pc EXCEPT ![w] = "withdraw_unlink"]
            /\ UNCHANGED last
    /\ UNCHANGED <<requests, nextId, docs, roles, writtenSince, personal, agent>>

(* request_file.unlink(), which raises when the file is no longer there *)
WithdrawUnlink(w) ==
    /\ pc[w] = "withdraw_unlink"
    /\ IF loc[w].id \in DOMAIN requests
       THEN /\ requests' = unlink(requests, loc[w].id)
            /\ writtenSince' = writtenSince \ {loc[w].id}
            /\ loc' = [loc EXCEPT ![w].result = "ok"]
            /\ last' = Done("withdraw", loc[w].id, "ok")
       ELSE /\ loc' = [loc EXCEPT ![w].result = "FileNotFoundError"]
            /\ last' = Done("withdraw", loc[w].id, "FileNotFoundError")
            /\ UNCHANGED <<requests, writtenSince>>
    /\ pc' = [pc EXCEPT ![w] = "idle"]
    /\ UNCHANGED <<nextId, docs, roles, now, personal, agent>>

NextWithdrawRace ==
    \/ \E u \in Actors, t \in OneType, c \in Contents, d \in Descriptions :
           Create(u, t, c, d)
    \/ \E w \in Workers, i \in RequestIds, u \in Actors, f \in Feedbacks :
           ApproveGet(w, i, u, f)
    \/ \E w \in Workers : ApproveCheck(w)
    \/ \E w \in Workers : ApproveApply(w)
    \/ \E w \in Workers : ApproveSave(w)
    \/ \E w \in Workers, i \in RequestIds, u \in Actors, f \in Feedbacks :
           RejectGet(w, i, u, f)
    \/ \E w \in Workers : RejectSave(w)
    \/ \E w \in Workers, i \in RequestIds : WithdrawGet(w, i)
    \/ \E w \in Workers : WithdrawUnlink(w)

SpecWithdrawRace == Init /\ [][NextWithdrawRace]_vars

----------------------------------------------------------------------------
(* Users table and UserService *)

UserIds == Users \cup {"u0"}    \* "u0": an id with no row in the users table

get_user_by_id(rls, user_id) ==
    IF user_id \in DOMAIN rls THEN rls[user_id] ELSE "UserNotFoundError"

count_approvers(rls) == Cardinality({u \in DOMAIN rls : rls[u] = APPROVER})

db_update_user_role(rls, user_id, role) == [rls EXCEPT ![user_id] = role]

(* _is_demoting_last_approver without the early return for an unchanged    *)
(* APPROVER role                                                           *)
is_demoting_without_new_role_check(rls, user_role, new_role) ==
    IF user_role # APPROVER
    THEN FALSE
    ELSE count_approvers(rls) = 1

is_demoting_last_approver(rls, user_role, new_role) ==
    IF user_role # APPROVER
    THEN FALSE
    ELSE IF new_role = APPROVER
         THEN FALSE
         ELSE count_approvers(rls) = 1

RoleOutcome(rls, raised) == [roles |-> rls, raised |-> raised]

update_user_role(rls, user_id, role) ==
    IF get_user_by_id(rls, user_id) = "UserNotFoundError"
    THEN RoleOutcome(rls, "UserNotFoundError")
    ELSE IF is_demoting_last_approver(rls, get_user_by_id(rls, user_id), role)
         THEN RoleOutcome(rls, "LastApproverError")
         ELSE RoleOutcome(db_update_user_role(rls, user_id, role), "ok")

(* UserService.update_user_role called directly *)
UpdateUserRole(user_id, role) ==
    LET r == update_user_role(roles, user_id, role)
    IN  /\ roles' = r.roles
        /\ last' = Done("update_user_role", 0, r.raised)
        /\ Tock
        /\ UNCHANGED <<requests, nextId, docs, writtenSince, pc, loc, personal, agent>>

(* PATCH /users/{user_id}/role *)
RouteUpdateUserRole(current_user, user_id, role) ==
    LET r == update_user_role(roles, user_id, role)
        refused == \/ get_current_approver(roles, current_user) # "ok"
                   \/ user_id = current_user
    IN  /\ roles' = IF refused THEN roles ELSE r.roles
        /\ last' = Done("update_user_role", 0,
                        IF refused THEN "HTTP_403" ELSE r.raised)
        /\ Tock
        /\ UNCHANGED <<requests, nextId, docs, writtenSince, pc, loc, personal, agent>>

(* Any users table with at least one APPROVER *)
InitRoles ==
    /\ requests = [i \in {} |-> 0]
    /\ nextId = 1
    /\ docs = [t \in PromptType |-> Absent]
    /\ roles \in {rls \in [Users -> UserRole] : count_approvers(rls) >= 1}
    /\ now = 1
    /\ last = NoOp
    /\ writtenSince = {}
    /\ pc = Idle
    /\ loc = NoLocals
    /\ personal = [t \in PromptType |-> Absent]
    /\ agent = NoAgent

NextRoles ==
    \/ \E u \in UserIds, r \in UserRole : UpdateUserRole(u, r)
    \/ \E c \in Users, u \in UserIds, r \in UserRole :
           RouteUpdateUserRole(c, u, r)

SpecRoles == InitRoles /\ [][NextRoles]_vars

(* update_user_role run by concurrent workers, one step per database access *)

(* current_user = get_user_by_id(self.db_path, user_id) *)
RoleGet(w, user_id, role) ==
    /\ pc[w] = "idle"
    /\ Tock
    /\ IF get_user_by_id(roles, user_id) = "UserNotFoundError"
       THEN /\ loc' = [loc EXCEPT ![w] =
                          [op |-> "update_user_role", id |-> 0,
                           result |-> "UserNotFoundError",
                           pre |-> FALSE, concurrent |-> FALSE]]
            /\ last' = Done("update_user_role", 0, "UserNotFoundError")
            /\ UNCHANGED pc
       ELSE /\ loc' = [loc EXCEPT ![w] =
                          [op |-> "update_user_role", id |-> 0,
                           user_id |-> user_id, role |-> role,
                           current_role |-> get_user_by_id(roles, user_id),
                           result |-> "none", pre |-> FALSE,
                           concurrent |-> \E v \in Workers \ {w} : Busy(v)]]
            /\ pc' = [pc EXCEPT ![w] = "role_check"]
            /\ UNCHANGED last
    /\ UNCHANGED <<requests, nextId, docs, roles, writtenSince, personal, agent>>

(* if self._is_demoting_last_approver(current_user, role): raise *)
RoleCheck(w) ==
    /\ pc[w] = "role_check"
    /\ IF is_demoting_last_approver(roles, loc[w].current_role, loc[w].role)
       THEN /\ loc' = [loc EXCEPT ![w].result = "LastApproverError"]
            /\ pc' = [pc EXCEPT ![w] = "idle"]
            /\ last' = Done("update_user_role", 0, "LastApproverError")
       ELSE /\ pc' = [pc EXCEPT ![w] = "role_write"]
            /\ UNCHANGED <<loc, last>>
    /\ UNCHANGED <<requests, nextId, docs, roles, now, writtenSince, personal, agent>>

(* db_update_user_role(self.db_path, user_id, role) and the return *)
RoleWrite(w) ==
    /\ pc[w] = "role_write"
    /\ roles' = db_update_user_role(roles, loc[w].user_id, loc[w].role)
    /\ loc' = [loc EXCEPT ![w].result = "ok"]
    /\ pc' = [pc EXCEPT ![w] = "idle"]
    /\ last' = Done("update_user_role", 0, "ok")
    /\ UNCHANGED <<requests, nextId, docs, now, writtenSince, personal, agent>>

NextRoleRace ==
    \/ \E w \in Workers, u \in UserIds, r \in UserRole : RoleGet(w, u, r)
    \/ \E w \in Workers : RoleCheck(w)
    \/ \E w \in Workers : RoleWrite(w)

SpecRoleRace == InitRoles /\ [][NextRoleRace]_vars

----------------------------------------------------------------------------
(* Executions made of HTTP requests only, role changes included *)

NextRoutes ==
    \/ \E u \in Actors, t \in OneType, c \in Contents2, d \in Descriptions :
           RouteCreate(u, t, c, d)
    \/ \E i \in RequestIds, u \in Actors, f \in Feedbacks : RouteApprove(i, u, f)
    \/ \E i \in RequestIds, u \in Actors, f \in Feedbacks : RouteReject(i, u, f)
    \/ \E i \in RequestIds, u \in Actors, c \in Contents2, d \in Descriptions :
           RouteRevise(i, u, c, d)
    \/ \E i \in RequestIds, u \in Actors : RouteWithdraw(i, u)
    \/ \E w \in WorkspaceIds, u \in Actors, t \in OneType, c \in Contents2 :
           RouteSavePromptIn(w, u, t, c)
    \/ \E c \in Actors, u \in Actors, r \in UserRole :
           RouteUpdateUserRole(c, u, r)

SpecRoutes == Init /\ [][NextRoutes]_vars

----------------------------------------------------------------------------
(* AnalysisAgent: repair of a category the model returned outside the      *)
(* configured names.  Definitions and excerpts are strings, written as     *)
(* sequences of characters; " " is the whitespace character.               *)

MaxCategories == 3    \* categories configured
MaxRows == 2          \* rows of a reasoning table

CategoryNames == <<"A", "", "B", "C">>    \* name of the k-th category
DefinitionTexts == {<< >>, <<"a">>, <<"a", "b">>}
Excerpts == {<< >>, <<" ">>, <<"a">>, <<" ", "a">>, <<"a", "b">>, <<"b">>, <<"b", "a">>}
InsightCategories == {"A", "X"}           \* "X" is never a configured name

CategoryLists ==
    UNION {{[k \in 1..n |-> [name |-> CategoryNames[k], definition |-> d[k]]] :
               d \in [1..n -> DefinitionTexts]} : n \in 0..MaxCategories}

Insights ==
    UNION {[category : InsightCategories,
            reasoning_table : [1..n -> Excerpts]] : n \in 0..MaxRows}

(* str.strip() *)
RECURSIVE lstrip(_)
lstrip(str) ==
    IF str # << >> /\ Head(str) = " " THEN lstrip(Tail(str)) ELSE str

RECURSIVE rstrip(_)
rstrip(str) ==
    IF str # << >> /\ str[Len(str)] = " "
    THEN rstrip(SubSeq(str, 1, Len(str) - 1))
    ELSE str

strip(str) == rstrip(lstrip(str))

(* excerpt in definition *)
in(excerpt, definition) ==
    \E i \in 0..(Len(definition) - Len(excerpt)) :
        SubSeq(definition, i + 1, i + Len(excerpt)) = excerpt

max(a, b) == IF a >= b THEN a ELSE b

(* The inner loop over insight.reasoning_table: score_for_cat after the    *)
(* first n rows.                                                           *)
RECURSIVE score_for_cat(_, _, _)
score_for_cat(definition, reasoning_table, n) ==
    IF n = 0
    THEN 0
    ELSE LET before == score_for_cat(definition, reasoning_table, n - 1)
             excerpt == strip(reasoning_table[n])
         IN  IF excerpt = << >>
             THEN before
             ELSE IF in(excerpt, definition)
                  THEN max(before, Len(excerpt))
                  ELSE before

(* The loop over categories without the tie flag: the first category with *)
(* the best score wins                                                     *)
RECURSIVE coerce_loop_without_tie(_, _, _)
coerce_loop_without_tie(insight, categories, n) ==
    IF n = 0
    THEN [best_category |-> None, best_score |-> 0, tie |-> FALSE]
    ELSE LET acc == coerce_loop_without_tie(insight, categories, n - 1)
             cat == categories[n]
             score == score_for_cat(cat.definition, insight.reasoning_table,
                                    Len(insight.reasoning_table))
         IN  IF cat.definition # << >> /\ score > acc.best_score
             THEN [best_category |-> cat.name, best_score |-> score,
                   tie |-> FALSE]
             ELSE acc

(* The outer loop over categories: best_category, best_score and tie after *)
(* the first n categories.                                                 *)
RECURSIVE coerce_loop(_, _, _)
coerce_loop(insight, categories, n) ==
    IF n = 0
    THEN [best_category |-> None, best_score |-> 0, tie |-> FALSE]
    ELSE LET acc == coerce_loop(insight, categories, n - 1)
             cat == categories[n]
             score == score_for_cat(cat.definition, insight.reasoning_table,
                                    Len(insight.reasoning_table))
         IN  IF cat.definition = << >>
             THEN acc
             ELSE IF score > acc.best_score
                  THEN [best_category |-> cat.name, best_score |-> score,
                        tie |-> FALSE]
                  ELSE IF score = acc.best_score /\ score # 0
                       THEN [acc EXCEPT !.tie = TRUE]
                       ELSE acc

coerce_category_from_excerpt(insight, categories) ==
    IF insight.reasoning_table = << >>
    THEN None
    ELSE LET r == coerce_loop(insight, categories, Len(categories))
         IN  IF r.tie \/ r.best_score = 0 THEN None ELSE r.best_category

(* Python truth value of a str | None *)
truthy(value) == value # None /\ value # ""

(* What analyze does with the insight the model returned: the insight it   *)
(* returns, or the ValueError it raises                                    *)
Returned(insight) == [raised |-> "ok", insight |-> insight]
Raised(error, insight) == [raised |-> error, insight |-> insight]

(* analyze answering with a result built anew from the category and the   *)
(* reasoning table                                                         *)
analyze_rebuilding_result(categories, insight) ==
    LET allowed_categories == {categories[k].name : k \in DOMAIN categories}
        rebuilt(category) ==
            [category |-> category,
             reasoning_table |-> insight.reasoning_table,
             confidence |-> insight.confidence,
             user_requested_analysis |-> None]
    IN  IF insight.category \notin allowed_categories
        THEN LET coerced == coerce_category_from_excerpt(insight, categories)
             IN  IF truthy(coerced)
                 THEN Returned(rebuilt(coerced))
                 ELSE Raised("ValueError", insight)
        ELSE Returned(insight)

analyze(categories, insight) ==
    LET allowed_categories == {categories[k].name : k \in DOMAIN categories}
    IN  IF insight.category \notin allowed_categories
        THEN LET coerced == coerce_category_from_excerpt(insight, categories)
             IN  IF truthy(coerced)
                 THEN Returned([insight EXCEPT !.category = coerced])
                 ELSE Raised("ValueError", insight)
        ELSE Returned(insight)

ServiceQuiet ==
    UNCHANGED <<requests, nextId, docs, roles, now, last, writtenSince, pc,
                loc, personal>>

(* The agent keeps nothing from one call to the next: an execution is one  *)
(* call on the configured categories.                                      *)

(* AnalysisAgent._coerce_category_from_excerpt called on a model output *)
Coerce(insight) ==
    /\ agent.called = "none"
    /\ agent' = [agent EXCEPT
                     !.called = "coerce",
                     !.insight = insight,
                     !.result = coerce_category_from_excerpt(
                                    insight, agent.categories)]
    /\ ServiceQuiet

(* AnalysisAgent.analyze, insight being what structured_llm.invoke returned *)
Analyze(insight) ==
    /\ agent.called = "none"
    /\ agent' = [agent EXCEPT
                     !.called = "analyze",
                     !.insight = insight,
                     !.result = analyze(agent.categories, insight)]
    /\ ServiceQuiet

InitAgent ==
    /\ requests = [i \in {} |-> 0]
    /\ nextId = 1
    /\ docs = [t \in PromptType |-> Absent]
    /\ roles = [u \in Users |-> IF u = "u2" THEN APPROVER ELSE USER]
    /\ now = 1
    /\ last = NoOp
    /\ writtenSince = {}
    /\ pc = Idle
    /\ loc = NoLocals
    /\ personal = [t \in PromptType |-> Absent]
    /\ agent \in {[NoAgent EXCEPT !.categories = c] : c \in CategoryLists}

NextAgent ==
    \/ \E insight \in Insights : Coerce(insight)
    \/ \E insight \in Insights : Analyze(insight)

SpecAgent == InitAgent /\ [][NextAgent]_vars

(* Model outputs with every field of AIInsight and, when a custom prompt   *)
(* was given, the user_requested_analysis of AIInsightWithUserAnalysis.    *)
Confidences == {5, 9}                     \* confidence, in tenths
UserAnalyses == {None, "analysis"}        \* None: an AIInsight, without the field
AnalysisExcerpts == {<< >>, <<" ", "a">>, <<"a", "b">>, <<"b">>}

InsightsWithAnalysis ==
    UNION {[category : InsightCategories,
            reasoning_table : [1..n -> AnalysisExcerpts],
            confidence : Confidences,
            user_requested_analysis : UserAnalyses] : n \in 0..MaxRows}

NextAnalysis == \E insight \in InsightsWithAnalysis : Analyze(insight)

SpecAnalysis == InitAgent /\ [][NextAnalysis]_vars

----------------------------------------------------------------------------
(* list_change_requests on a directory of stored requests.  The stores are *)
(* drawn with every combination of status and submission time, equal       *)
(* times included (two creates that read the same datetime.now()).         *)

MaxStored == 3    \* request files in the directory when list is called

SubmissionTimes == {1, 2}

(* The record create_change_request wrote at the given time, after the     *)
(* review (if any) that gave it the status.                                *)
StoredRequest(id, time, status) ==
    [id |-> id,
     workspace_id |-> ORGANIZATION_WORKSPACE_ID,
     prompt_type |-> "CATEGORY_DEFINITIONS",
     submitted_by |-> "u1",
     submitted_at |-> time,
     status |-> status,
     current_content |-> get_empty_content_for_type("CATEGORY_DEFINITIONS"),
     proposed_content |-> "c1",
     description |-> None,
     reviewed_by |-> IF status = PENDING THEN None ELSE "u2",
     reviewed_at |-> IF status = PENDING THEN NoTime ELSE time + 1,
     review_feedback |-> IF status = PENDING THEN None ELSE "f"]

Stores ==
    UNION {{[i \in 1..n |-> StoredRequest(i, t[i], st[i])] :
               t \in [1..n -> SubmissionTimes],
               st \in [1..n -> ChangeRequestStatus]} : n \in 0..MaxStored}

InitList ==
    /\ requests \in Stores
    /\ nextId = Cardinality(DOMAIN requests) + 1
    /\ docs = [t \in PromptType |-> Absent]
    /\ roles = [u \in Users |-> IF u = "u2" THEN APPROVER ELSE USER]
    /\ now = 4
    /\ last = NoOp
    /\ writtenSince = {}
    /\ pc = Idle
    /\ loc = NoLocals
    /\ personal = [t \in PromptType |-> Absent]
    /\ agent = NoAgent

(* A worker runs list_change_requests(status); files is the order in which *)
(* glob yields the request files.  The call writes nothing, so one call on *)
(* each store covers every call.                                           *)
List(w, files, status) ==
    /\ pc[w] = "idle"
    /\ loc[w].op = "none"
    /\ loc' = [loc EXCEPT ![w] =
                  [op |-> "list", id |-> 0, files |-> files,
                   status |-> status,
                   result |-> list_change_requests(requests, files, status),
                   pre |-> FALSE, concurrent |-> FALSE]]
    /\ last' = Done("list", 0, "ok")
    /\ UNCHANGED <<requests, nextId, docs, roles, now, writtenSince, pc,
                   personal, agent>>

NextList ==
    \E files \in glob(requests), status \in ChangeRequestStatus \cup {None} :
        List("w1", files, status)

SpecList == InitList /\ [][NextList]_vars

----------------------------------------------------------------------------
(* C1: in every state reached by completed create, approve, reject, revise *)
(* and withdraw operations run one at a time, each pair (submitted_by,     *)
(* prompt_type) has at most one stored change request with status PENDING. *)
PendingOf(user_id, prompt_type) ==
    {i \in DOMAIN requests :
        /\ requests[i].submitted_by = user_id
        /\ requests[i].prompt_type = prompt_type
        /\ requests[i].status = PENDING}

C1_AtMostOnePendingPerPair ==
    \A u \in Users, t \in PromptType : Cardinality(PendingOf(u, t)) <= 1

(* C2: APPROVED is terminal: once a stored request has status APPROVED, no *)
(* later operation, through the service or the routes, changes its status  *)
(* or deletes it.                                                          *)
C2_ApprovedIsTerminal ==
    [][\A i \in DOMAIN requests :
           requests[i].status = APPROVED =>
               /\ i \in DOMAIN requests'
               /\ requests'[i].status = APPROVED]_vars

(* C4 as stated: if the organization document of r's prompt type is        *)
(* overwritten by any writer between create(r) and approve(r), approve(r)  *)
(* raises ChangeRequestConflictError and leaves the live document as it    *)
(* was (stated for a request r that is PENDING when it is approved).       *)
C4_AnyOverwriteConflicts ==
    [][(/\ last'.op = "approve"
        /\ ServiceRan(last')
        /\ last'.id \in DOMAIN requests
        /\ requests[last'.id].status = PENDING
        /\ last'.id \in writtenSince)
       => (/\ last'.outcome = "ChangeRequestConflictError"
           /\ docs' = docs)]_vars

(* C4 as amended: if the document was overwritten between create(r) and    *)
(* approve(r) and its content at the approve differs from r's snapshot     *)
(* current_content, approve(r) raises ChangeRequestConflictError and the   *)
(* live document is the same after the failed call as before it.           *)
C4_DifferingOverwriteConflicts ==
    [][(/\ last'.op = "approve"
        /\ ServiceRan(last')
        /\ last'.id \in DOMAIN requests
        /\ last'.id \in writtenSince
        /\ load_current_content(docs, requests[last'.id].prompt_type)
               # requests[last'.id].current_content)
       => (/\ last'.outcome = "ChangeRequestConflictError"
           /\ docs' = docs)]_vars

C4_Witness ==
    /\ last.op = "approve"
    /\ last.outcome = "ChangeRequestConflictError"
    /\ last.id \in writtenSince
    /\ load_current_content(docs, requests[last.id].prompt_type)
           # requests[last.id].current_content

(* C5: a request created and then approved with no write to its prompt     *)
(* type's document in between is approved: the live document then equals   *)
(* its proposed_content and the stored request is APPROVED with            *)
(* reviewed_by the reviewer, reviewed_at set and review_feedback the       *)
(* feedback passed.                                                        *)
C5_FreshApproveSucceeds ==
    [][\A i \in RequestIds, u \in Users, f \in Feedbacks :
           (/\ Approve(i, u, f) \/ RouteApprove(i, u, f)
            /\ ServiceRan(last')
            /\ i \in DOMAIN requests
            /\ i \notin writtenSince)
           => (/\ last'.outcome = "ok"
               /\ docs'[requests[i].prompt_type] = requests[i].proposed_content
               /\ i \in DOMAIN requests'
               /\ requests'[i].status = APPROVED
               /\ requests'[i].reviewed_by = u
               /\ requests'[i].reviewed_at # NoTime
               /\ requests'[i].review_feedback = f)]_vars

C5_Witness ==
    /\ last.op = "approve"
    /\ last.outcome = "ok"
    /\ last.fresh
    /\ requests[last.id].status = APPROVED
    /\ docs[requests[last.id].prompt_type] = requests[last.id].proposed_content

(* C6 as stated: an organization document changes only as the effect of a  *)
(* successful approve; no other operation, a PUT on the organization       *)
(* prompts included, modifies it.                                          *)
C6_ApproveIsTheOnlyWriter ==
    [][docs' # docs => (last'.op = "approve" /\ last'.outcome = "ok")]_vars

(* C6 as amended: an organization document changes only as the effect of a *)
(* successful approve or of a PUT on the organization prompts by a user    *)
(* whose role is APPROVER; a PUT by a user who is not an APPROVER never    *)
(* modifies it.                                                            *)
C6_ApproveOrApproverPut ==
    [][/\ docs' # docs =>
            \/ last'.op = "approve" /\ last'.outcome = "ok"
            \/ last'.op = "save_prompt" /\ last'.outcome = "saved"
       /\ \A u \in Users, t \in InputTypes, c \in Contents :
              (RouteSavePrompt(u, t, c) /\ roles[u] # APPROVER)
              => (docs' = docs /\ last'.outcome # "saved")]_vars

C6_Witness ==
    /\ last.op = "save_prompt"
    /\ last.outcome = "saved"
    /\ \E t \in PromptType : docs[t] \in Contents

(* C9: after create(u, t, ...) succeeds has_pending_request(u, t) is true  *)
(* and has_pending_request is unchanged for every other pair; a create for *)
(* a pair that has a PENDING request raises DuplicatePendingRequestError   *)
(* and leaves the stored change requests and the live documents unchanged. *)
C9_CreateAndDuplicate ==
    [][\A u \in Users, t \in InputTypes, c \in Contents, d \in Descriptions :
           (Create(u, t, c, d) \/ RouteCreate(u, t, c, d))
           => IF has_pending_request(requests, u, t)
              THEN /\ last'.outcome = "DuplicatePendingRequestError"
                   /\ requests' = requests
                   /\ docs' = docs
              ELSE /\ last'.outcome = "ok"
                   /\ has_pending_request(requests', u, t)
                   /\ \A u2 \in Users, t2 \in PromptType :
                          <<u2, t2>> # <<u, t>> =>
                              (has_pending_request(requests', u2, t2)
                                   <=> has_pending_request(requests, u2, t2))
                   /\ docs' = docs]_vars

C9_Witness ==
    /\ last.op = "create"
    /\ last.outcome = "DuplicatePendingRequestError"
    /\ \E u \in Users, t \in PromptType : has_pending_request(requests, u, t)

(* C10: revise on a PENDING or APPROVED request raises                     *)
(* InvalidChangeRequestStateError and leaves the stored request and the    *)
(* live documents unchanged; revise on an id that does not exist raises    *)
(* ChangeRequestNotFoundError.                                             *)
C10_ReviseOnlyRejected ==
    [][(last'.op = "revise" /\ ServiceRan(last'))
       => /\ last'.id \notin DOMAIN requests
              => (/\ last'.outcome = "ChangeRequestNotFoundError"
                  /\ requests' = requests
                  /\ docs' = docs)
          /\ (/\ last'.id \in DOMAIN requests
              /\ requests[last'.id].status \in {PENDING, APPROVED})
              => (/\ last'.outcome = "InvalidChangeRequestStateError"
                  /\ requests' = requests
                  /\ docs' = docs)]_vars

C10_Witness ==
    /\ last.op = "revise"
    /\ last.outcome = "InvalidChangeRequestStateError"
    /\ requests[last.id].status = APPROVED

(* C3: two approvals running concurrently for two PENDING requests of the  *)
(* same prompt type whose snapshots both equal the live document never     *)
(* both succeed.                                                           *)
C3_NoDoubleApproval ==
    ~ \E w \in Workers, v \in Workers :
          /\ w # v
          /\ ~Busy(w) /\ ~Busy(v)
          /\ loc[w].op = "approve" /\ loc[v].op = "approve"
          /\ loc[w].result = "ok" /\ loc[v].result = "ok"
          /\ loc[w].pre /\ loc[v].pre
          /\ loc[w].concurrent
          /\ loc[w].id # loc[v].id
          /\ loc[w].change_request.prompt_type
                 = loc[v].change_request.prompt_type

----------------------------------------------------------------------------
(* C11: revise of a REJECTED request sets its status to PENDING, replaces  *)
(* proposed_content and description with the arguments, clears             *)
(* reviewed_by, reviewed_at and review_feedback, and sets current_content  *)
(* to the live document as it is at the time of the call; an approve that  *)
(* follows the revise with no write in between succeeds and applies the    *)
(* revised proposal, even when the document was written between the        *)
(* create and the revise.                                                  *)
C11_ReviseResnapshots ==
    [][/\ \A i \in RequestIds, c \in Contents2, d \in Descriptions2 :
              (/\ Revise(i, c, d)
               /\ i \in DOMAIN requests
               /\ requests[i].status = REJECTED)
              => /\ last'.outcome = "ok"
                 /\ docs' = docs
                 /\ DOMAIN requests' = DOMAIN requests
                 /\ \A j \in DOMAIN requests \ {i} : requests'[j] = requests[j]
                 /\ requests'[i] =
                        [requests[i] EXCEPT
                             !.status = PENDING,
                             !.proposed_content = c,
                             !.description = d,
                             !.current_content =
                                 load_current_content(
                                     docs, requests[i].prompt_type),
                             !.reviewed_by = None,
                             !.reviewed_at = NoTime,
                             !.review_feedback = None]
       /\ \A i \in RequestIds, u \in Actors, f \in Feedbacks :
              (/\ Approve(i, u, f)
               /\ last = [op |-> "revise", id |-> i, outcome |-> "ok",
                          fresh |-> FALSE])
              => /\ last'.outcome = "ok"
                 /\ requests'[i].status = APPROVED
                 /\ docs'[requests[i].prompt_type]
                        = requests[i].proposed_content]_vars

(* An approve has just succeeded directly after a revise of a request      *)
(* whose document had been written since its creation to a content other   *)
(* than the snapshot taken at create (the empty default).                  *)
C11_Witness ==
    /\ last.op = "approve"
    /\ last.outcome = "ok"
    /\ ~last.fresh
    /\ last.id \in DOMAIN requests
    /\ requests[last.id].status = APPROVED
    /\ requests[last.id].current_content
           # get_empty_content_for_type(requests[last.id].prompt_type)
    /\ requests[last.id].submitted_at = 0

(* The ids in a sequence of ids *)
Range(seq) == {seq[k] : k \in DOMAIN seq}

(* C12: withdraw of a PENDING request deletes its record: a get of that id *)
(* then raises ChangeRequestNotFoundError and the request no longer counts *)
(* in has_pending_request, count_pending_requests or list; withdraw of a   *)
(* REJECTED or APPROVED request raises InvalidChangeRequestStateError and  *)
(* leaves the record unchanged; withdraw never modifies a live document.   *)
C12_WithdrawDeletesPending ==
    [][/\ \A i \in RequestIds :
              (Withdraw(i) /\ i \in DOMAIN requests)
              => /\ docs' = docs
                 /\ requests[i].status = PENDING
                    => /\ last'.outcome = "ok"
                       /\ get_change_request(requests', i)
                              = "ChangeRequestNotFoundError"
                       /\ \A j \in DOMAIN requests \ {i} :
                              get_change_request(requests', j) = requests[j]
                       /\ has_pending_request(requests',
                              requests[i].submitted_by, requests[i].prompt_type)
                          <=> \E j \in DOMAIN requests \ {i} :
                                  /\ requests[j].submitted_by
                                         = requests[i].submitted_by
                                  /\ requests[j].prompt_type
                                         = requests[i].prompt_type
                                  /\ requests[j].status = PENDING
                       /\ count_pending_requests(requests')
                              = count_pending_requests(requests) - 1
                       /\ \A files \in glob(requests'),
                             st \in ChangeRequestStatus \cup {None} :
                              i \notin Range(list_change_requests(
                                                 requests', files, st))
                 /\ requests[i].status \in {REJECTED, APPROVED}
                    => /\ last'.outcome = "InvalidChangeRequestStateError"
                       /\ requests' = requests
       /\ \A i \in RequestIds, u \in Actors :
              RouteWithdraw(i, u) => docs' = docs]_vars

(* A PENDING request has just been withdrawn while another request is      *)
(* still stored.                                                           *)
C12_Witness ==
    /\ last.op = "withdraw"
    /\ last.outcome = "ok"
    /\ last.id \notin DOMAIN requests
    /\ DOMAIN requests # {}

(* C13: through the approve route a request whose submitted_by is the      *)
(* calling user is refused with 403 whatever the caller's role, leaving    *)
(* the request and the live document unchanged; in any sequence of route   *)
(* calls no request has status APPROVED with reviewed_by = submitted_by.   *)
C13_NoSelfApproval ==
    /\ [](\A i \in DOMAIN requests :
              requests[i].status = APPROVED
              => requests[i].reviewed_by # requests[i].submitted_by)
    /\ [][\A i \in RequestIds, u \in Actors, f \in Feedbacks :
              (/\ RouteApprove(i, u, f)
               /\ i \in DOMAIN requests
               /\ requests[i].submitted_by = u)
              => /\ last'.outcome = "HTTP_403"
                 /\ requests' = requests
                 /\ docs' = docs]_vars

(* An approve was refused with 403 although every acting user is an        *)
(* APPROVER: the refusal is the one for the submitter's own PENDING        *)
(* request.                                                                *)
C13_Witness ==
    /\ last.op = "approve"
    /\ last.outcome = "HTTP_403"
    /\ \A u \in Actors : roles[u] = APPROVER
    /\ last.id \in DOMAIN requests
    /\ requests[last.id].status = PENDING

(* C14: an approve or reject call through the routes by a user whose role  *)
(* is USER at the time of the call is refused with 403 and leaves the      *)
(* request's status, its review fields and the live document unchanged.    *)
C14_OnlyApproversReview ==
    [][\A i \in RequestIds, u \in Actors, f \in Feedbacks :
           (/\ RouteApprove(i, u, f) \/ RouteReject(i, u, f)
            /\ roles[u] = USER)
           => /\ last'.outcome = "HTTP_403"
              /\ requests' = requests
              /\ docs' = docs]_vars

(* A reject of a stored PENDING request was refused with 403; the reject   *)
(* route has no other refusal with that status.                            *)
C14_Witness ==
    /\ last.op = "reject"
    /\ last.outcome = "HTTP_403"
    /\ last.id \in DOMAIN requests
    /\ requests[last.id].status = PENDING
    /\ requests[last.id].reviewed_by = None

(* C15: a revise or withdraw call through the routes by any user other     *)
(* than submitted_by is refused with 403 whatever the request's status and *)
(* the caller's role, and leaves the stored request unchanged and present; *)
(* the ownership check comes before the status check, so the refusal is    *)
(* 403 also when the status would not allow the operation.                 *)
C15_OnlySubmitterRevisesOrWithdraws ==
    [][/\ \A i \in RequestIds, u \in Actors,
             c \in Contents2, d \in Descriptions :
              (/\ RouteRevise(i, u, c, d)
               /\ i \in DOMAIN requests
               /\ requests[i].submitted_by # u)
              => /\ last'.outcome = "HTTP_403"
                 /\ requests' = requests
                 /\ docs' = docs
       /\ \A i \in RequestIds, u \in Actors :
              (/\ RouteWithdraw(i, u)
               /\ i \in DOMAIN requests
               /\ requests[i].submitted_by # u)
              => /\ last'.outcome = "HTTP_403"
                 /\ requests' = requests
                 /\ docs' = docs]_vars

(* A withdraw of a stored request that is not PENDING was refused with 403 *)
(* (not with the status error), the caller having the role APPROVER or not.*)
C15_Witness ==
    /\ last.op = "withdraw"
    /\ last.outcome = "HTTP_403"
    /\ last.id \in DOMAIN requests
    /\ requests[last.id].status = REJECTED
    /\ \A u \in Actors : roles[u] = APPROVER

(* C16: a PUT on an organization prompt document by a user who is not an   *)
(* APPROVER never modifies the live document: it creates a PENDING change  *)
(* request carrying the submitted content as proposed_content (202), or is *)
(* refused with 409 when the user already has a PENDING request for that   *)
(* prompt type; the same PUT by an APPROVER, or by any user on a workspace *)
(* other than the organization's, writes the document directly and creates *)
(* no change request.                                                      *)
C16_PutRoutesByRoleAndWorkspace ==
    [][\A u \in Actors, t \in OneType, c \in Contents2 :
          /\ (/\ RouteSavePromptIn("organization", u, t, c)
              /\ roles[u] # APPROVER)
             => /\ docs' = docs
                /\ personal' = personal
                /\ IF has_pending_request(requests, u, t)
                   THEN /\ last'.outcome = "DuplicatePendingRequestError"
                        /\ requests' = requests
                   ELSE /\ last'.outcome = "ok"
                        /\ DOMAIN requests' = DOMAIN requests \cup {nextId}
                        /\ nextId \notin DOMAIN requests
                        /\ \A j \in DOMAIN requests : requests'[j] = requests[j]
                        /\ requests'[nextId].status = PENDING
                        /\ requests'[nextId].proposed_content = c
                        /\ requests'[nextId].submitted_by = u
                        /\ requests'[nextId].prompt_type = t
          /\ (/\ RouteSavePromptIn("organization", u, t, c)
              /\ roles[u] = APPROVER)
             => /\ docs' = [docs EXCEPT ![t] = c]
                /\ personal' = personal
                /\ requests' = requests
                /\ last'.outcome = "saved"
          /\ RouteSavePromptIn("ws1", u, t, c)
             => /\ personal' = [personal EXCEPT ![t] = c]
                /\ docs' = docs
                /\ requests' = requests
                /\ last'.outcome = "saved"]_vars

(* A PUT has just been answered with a new PENDING request proposing "c2"  *)
(* while the organization document it is about was left as it was.         *)
C16_Witness ==
    /\ last.op = "save_prompt"
    /\ last.outcome = "ok"
    /\ last.id \in DOMAIN requests
    /\ requests[last.id].status = PENDING
    /\ requests[last.id].proposed_content = "c2"
    /\ docs[requests[last.id].prompt_type] = "c1"

(* score(c) of the claim: the length of the longest whitespace-trimmed,    *)
(* non-empty excerpt of the table that is a substring of the definition of *)
(* the k-th category, 0 when there is none or the definition is empty.     *)
Score(categories, reasoning_table, k) ==
    LET definition == categories[k].definition
        Matching == {n \in DOMAIN reasoning_table :
                        /\ strip(reasoning_table[n]) # << >>
                        /\ in(strip(reasoning_table[n]), definition)}
    IN  IF definition = << >> \/ Matching = {}
        THEN 0
        ELSE CHOOSE len \in {Len(strip(reasoning_table[n])) : n \in Matching} :
                 \A n \in Matching : Len(strip(reasoning_table[n])) <= len

(* The categories whose score is positive and above every other score *)
UniqueBest(categories, reasoning_table) ==
    {k \in DOMAIN categories :
        /\ Score(categories, reasoning_table, k) > 0
        /\ \A j \in DOMAIN categories \ {k} :
               Score(categories, reasoning_table, j)
                   < Score(categories, reasoning_table, k)}

(* C17: _coerce_category_from_excerpt returns the name of category c       *)
(* exactly when score(c) > 0 and score(c) is strictly greater than the     *)
(* score of every other category; in every other case (all scores 0, the   *)
(* best non-zero score shared, empty reasoning table) it returns None.     *)
C17_CoerceReturnsUniqueBest ==
    agent.called = "coerce"
    => LET best == UniqueBest(agent.categories, agent.insight.reasoning_table)
       IN  IF best = {}
           THEN agent.result = None
           ELSE \E k \in best : agent.result = agent.categories[k].name

(* The third category won after the first two had tied on a shorter        *)
(* excerpt that matched only once trimmed.                                 *)
C17_Witness ==
    /\ agent.called = "coerce"
    /\ agent.result = "B"
    /\ Len(agent.categories) = 3
    /\ agent.categories[1].definition = <<"a">>
    /\ agent.categories[2].definition = <<"a">>
    /\ agent.insight.reasoning_table = << <<" ", "a">>, <<"a", "b">> >>

(* The configured category names *)
Allowed(categories) == {categories[k].name : k \in DOMAIN categories}

(* C18: analyze never returns a result whose category is outside the       *)
(* configured names: when the model's category is not allowed it either    *)
(* returns the result with the coerced category or raises the 'category    *)
(* not in allowed set' error, and the error is raised exactly when         *)
(* coercion fails (returns None).                                          *)
C18_ErrorExactlyWhenCoercionFails ==
    agent.called = "analyze"
    => LET coerced == coerce_category_from_excerpt(agent.insight,
                                                   agent.categories)
       IN  /\ agent.result.raised = "ok"
              => agent.result.insight.category \in Allowed(agent.categories)
           /\ agent.insight.category \in Allowed(agent.categories)
              => agent.result = Returned(agent.insight)
           /\ agent.insight.category \notin Allowed(agent.categories)
              => /\ agent.result.raised = "ValueError" <=> coerced = None
                 /\ agent.result.raised = "ok"
                    => agent.result
                           = Returned([agent.insight EXCEPT
                                           !.category = coerced])

(* C19: list_change_requests() returns every stored request exactly once,  *)
(* ordered by submitted_at descending (of two adjacent results the first   *)
(* has submitted_at greater than or equal to the second);                  *)
(* list_change_requests(status=X) returns exactly the stored requests      *)
(* whose status is X, in the order they have in the unfiltered list.       *)
C19_ListSortedAndFiltered ==
    loc["w1"].op = "list"
    => LET result == loc["w1"].result
           status == loc["w1"].status
           Wanted(i) == status = None \/ requests[i].status = status
       IN  /\ \A k \in DOMAIN result :
                  result[k] \in DOMAIN requests /\ Wanted(result[k])
           /\ \A i \in DOMAIN requests :
                  Wanted(i)
                  => Cardinality({k \in DOMAIN result : result[k] = i}) = 1
           /\ \A k \in 1..(Len(result) - 1) :
                  requests[result[k]].submitted_at
                      >= requests[result[k + 1]].submitted_at
           /\ result = SelectSeq(list_change_requests(
                                     requests, loc["w1"].files, None), Wanted)

(* A filtered list of two PENDING requests out of three stored, returned   *)
(* in an order other than the one the files were read in.                  *)
C19_Witness ==
    /\ loc["w1"].op = "list"
    /\ loc["w1"].status = PENDING
    /\ Cardinality(DOMAIN requests) = 3
    /\ Len(loc["w1"].result) = 2
    /\ loc["w1"].result[1] = 3
    /\ loc["w1"].files = <<1, 2, 3>>

(* C20: approve compares the live document with the request's              *)
(* current_content at the moment of the call: whenever they differ it      *)
(* raises ChangeRequestConflictError and mutates nothing (the live         *)
(* document, the request's status and its reviewed_by, reviewed_at and     *)
(* review_feedback are as before the call); whenever they are equal it     *)
(* does not raise ChangeRequestConflictError, however often the document   *)
(* was written in between.                                                 *)
C20_ConflictIffContentDiffers ==
    [][\A i \in RequestIds, u \in Actors, f \in Feedbacks :
           (Approve(i, u, f) /\ i \in DOMAIN requests)
           => LET live == load_current_content(docs, requests[i].prompt_type)
              IN  /\ live # requests[i].current_content
                     => /\ last'.outcome = "ChangeRequestConflictError"
                        /\ docs' = docs
                        /\ requests' = requests
                  /\ live = requests[i].current_content
                     => /\ last'.outcome = "ok"
                        /\ requests'[i].status = APPROVED
                        /\ docs' = [docs EXCEPT ![requests[i].prompt_type] =
                                        requests[i].proposed_content]]_vars

(* An approve has just succeeded for a request created after the document  *)
(* held "c1", the document having been written again since the create and  *)
(* holding "c1" at the time of the approve.                                *)
C20_Witness ==
    /\ last.op = "approve"
    /\ last.outcome = "ok"
    /\ ~last.fresh
    /\ last.id \in DOMAIN requests
    /\ requests[last.id].submitted_at > 1
    /\ requests[last.id].current_content = "c1"
    /\ requests[last.id].reviewed_at = requests[last.id].submitted_at + 2

(* C21: approve_change_request called directly on a request whose status   *)
(* is APPROVED or REJECTED never succeeds: it fails with                   *)
(* ChangeRequestConflictError, so that a status becomes APPROVED only from *)
(* PENDING and approve writes the live document only for a PENDING         *)
(* request.                                                                *)
C21_ApproveOnlyFromPending ==
    [][\A i \in RequestIds, u \in Actors, f \in Feedbacks :
           (/\ Approve(i, u, f)
            /\ i \in DOMAIN requests
            /\ requests[i].status \in {APPROVED, REJECTED})
           => /\ last'.outcome = "ChangeRequestConflictError"
              /\ requests' = requests
              /\ docs' = docs]_vars

(* C22: revise resets submitted_at to the time of the revision, so that    *)
(* immediately after a successful revise the revised request is the first  *)
(* element of list_change_requests().                                      *)
C22_ReviseResetsSubmittedAt ==
    [][\A i \in RequestIds, c \in Contents, d \in Descriptions :
           (/\ Revise(i, c, d)
            /\ i \in DOMAIN requests
            /\ requests[i].status = REJECTED)
           => /\ requests'[i].submitted_at = now
              /\ \A files \in glob(requests') :
                     list_change_requests(requests', files, None)[1] = i]_vars

(* C23: reject performs no conflict check and touches no live document:    *)
(* on an existing request in any status it succeeds, sets status REJECTED  *)
(* and overwrites reviewed_by, reviewed_at and review_feedback with the    *)
(* call's values, leaving every other field (proposed_content and          *)
(* current_content among them) and every live document unchanged; on a     *)
(* missing id it raises ChangeRequestNotFoundError.                        *)
C23_RejectFromAnyStatus ==
    [][\A i \in RequestIds, u \in Actors, f \in Feedbacks :
           Reject(i, u, f)
           => /\ docs' = docs
              /\ IF i \in DOMAIN requests
                 THEN /\ last'.outcome = "ok"
                      /\ requests' =
                             [requests EXCEPT ![i] =
                                 [requests[i] EXCEPT
                                      !.status = REJECTED,
                                      !.reviewed_by = u,
                                      !.reviewed_at = now,
                                      !.review_feedback = f]]
                 ELSE /\ last'.outcome = "ChangeRequestNotFoundError"
                      /\ requests' = requests]_vars

(* A reject has just succeeded on a request that had been approved (its    *)
(* proposal is the live document, which no longer equals its snapshot).    *)
C23_Witness ==
    /\ last.op = "reject"
    /\ last.outcome = "ok"
    /\ last.id \in DOMAIN requests
    /\ requests[last.id].status = REJECTED
    /\ last.id \in writtenSince
    /\ docs[requests[last.id].prompt_type] = requests[last.id].proposed_content
    /\ requests[last.id].current_content # requests[last.id].proposed_content

(* The typed empty default of the claim *)
EmptyDefault(prompt_type) ==
    CASE prompt_type = "CATEGORY_DEFINITIONS" -> "{categories: []}"
      [] prompt_type = "FEW_SHOTS" -> "{examples: []}"
      [] prompt_type = "SYSTEM_PROMPT" -> "{content: ''}"

(* C24: create modifies no live document and stores as current_content the *)
(* live document of the request's prompt type as it is at creation, or the *)
(* typed empty default when that document does not exist; a request        *)
(* created against a missing document and approved with no write in        *)
(* between is approved without conflict and the document then exists with  *)
(* the proposed content.                                                   *)
C24_CreateSnapshotsLiveOrDefault ==
    [][/\ \A u \in Actors, t \in PromptType,
             c \in Contents, d \in Descriptions :
              Create(u, t, c, d)
              => /\ docs' = docs
                 /\ last'.outcome = "ok"
                    => requests'[nextId].current_content =
                           IF docs[t] = Absent
                           THEN EmptyDefault(t)
                           ELSE docs[t]
       /\ \A i \in RequestIds, u \in Actors, f \in Feedbacks :
              (/\ Approve(i, u, f)
               /\ i \in DOMAIN requests
               /\ i \notin writtenSince
               /\ requests[i].current_content
                      = EmptyDefault(requests[i].prompt_type))
              => /\ last'.outcome = "ok"
                 /\ requests'[i].status = APPROVED
                 /\ docs'[requests[i].prompt_type]
                        = requests[i].proposed_content]_vars

(* A request for the system prompt, created when no such document existed, *)
(* has just been approved and the document now holds its proposal.         *)
C24_Witness ==
    /\ last.op = "approve"
    /\ last.outcome = "ok"
    /\ last.fresh
    /\ last.id \in DOMAIN requests
    /\ requests[last.id].prompt_type = "SYSTEM_PROMPT"
    /\ requests[last.id].current_content = "{content: ''}"
    /\ docs["SYSTEM_PROMPT"] = requests[last.id].proposed_content

(* Worker v has completed a create for the pair worker w is creating for,  *)
(* and neither call's scan read the other's record.                        *)
RacedWith(w, v) ==
    /\ v # w
    /\ pc[v] = "idle"
    /\ loc[v].op = "create"
    /\ loc[v].result = "ok"
    /\ loc[v].user_id = loc[w].user_id
    /\ loc[v].prompt_type = loc[w].prompt_type
    /\ loc[v].id \notin loc[w].seen
    /\ loc[w].id \notin loc[v].seen
    /\ loc[v].id \in DOMAIN requests
    /\ requests[loc[v].id].status = PENDING

(* C25: when two create calls for the same (user, prompt type) run         *)
(* concurrently, each call's scan for a pending request completing before  *)
(* either call saves its record, both calls succeed and the store then     *)
(* holds two PENDING requests for that pair.                               *)
C25_ConcurrentCreatesBothSucceed ==
    [][\A w \in Workers, v \in Workers :
           (CreateSave(w) /\ RacedWith(w, v))
           => /\ last'.outcome = "ok"
              /\ loc'[w].result = "ok"
              /\ loc[w].id # loc[v].id
              /\ \A i \in {loc[w].id, loc[v].id} :
                     /\ i \in DOMAIN requests'
                     /\ requests'[i].status = PENDING
                     /\ requests'[i].submitted_by = loc[w].user_id
                     /\ requests'[i].prompt_type = loc[w].prompt_type]_vars

(* Two workers have each returned from a create for the same pair, neither *)
(* scan having read the other's record, and both records are stored        *)
(* PENDING.                                                                *)
C25_Witness ==
    /\ last.op = "create"
    /\ last.outcome = "ok"
    /\ \A w \in Workers : pc[w] = "idle" /\ loc[w].op = "create"
                          /\ loc[w].result = "ok"
    /\ loc["w1"].user_id = loc["w2"].user_id
    /\ loc["w1"].prompt_type = loc["w2"].prompt_type
    /\ loc["w1"].id \notin loc["w2"].seen
    /\ loc["w2"].id \notin loc["w1"].seen
    /\ Cardinality({i \in DOMAIN requests :
                       /\ requests[i].status = PENDING
                       /\ requests[i].submitted_by = loc["w1"].user_id
                       /\ requests[i].prompt_type = loc["w1"].prompt_type}) = 2

(* C26: analyze changes at most the category field of the model's result:  *)
(* after a successful coercion the reasoning_table, confidence and (when    *)
(* present) user_requested_analysis are identical to what the model         *)
(* returned, and when the model's category is already a configured name     *)
(* the result is returned with its category unchanged and the coercion      *)
(* heuristic is not applied, even if an excerpt matches another category's  *)
(* definition.                                                              *)
C26_AnalyzeChangesOnlyCategory ==
    (agent.called = "analyze" /\ agent.result.raised = "ok")
    => /\ agent.result.insight.reasoning_table = agent.insight.reasoning_table
       /\ agent.result.insight.confidence = agent.insight.confidence
       /\ agent.result.insight.user_requested_analysis
              = agent.insight.user_requested_analysis
       /\ DOMAIN agent.result.insight = DOMAIN agent.insight
       /\ agent.insight.category \in Allowed(agent.categories)
          => agent.result.insight.category = agent.insight.category

(* analyze replaced the category "X" by a configured one and the result     *)
(* carries the user analysis, the confidence and the unstripped excerpts    *)
(* of the model's answer.                                                   *)
C26_Witness ==
    /\ agent.called = "analyze"
    /\ agent.result.raised = "ok"
    /\ agent.insight.category = "X"
    /\ agent.result.insight.category = "B"
    /\ agent.insight.user_requested_analysis = "analysis"
    /\ agent.result.insight.user_requested_analysis = "analysis"
    /\ agent.result.insight.confidence = 5
    /\ agent.result.insight.reasoning_table = << <<" ", "a">>, <<"a", "b">> >>

(* analyze returned the configured category "A" although the excerpts       *)
(* single out another category's definition.                                *)
C26_ConfiguredCategoryKept ==
    /\ agent.called = "analyze"
    /\ agent.result.raised = "ok"
    /\ agent.insight.category = "A"
    /\ agent.result.insight.category = "A"
    /\ coerce_category_from_excerpt(agent.insight, agent.categories) = "B"

(* C27: in every state reached by completed create, approve, reject,       *)
(* revise and withdraw operations, a stored request with status PENDING    *)
(* has reviewed_by, reviewed_at and review_feedback all null, and one with *)
(* status APPROVED or REJECTED has reviewed_by and reviewed_at non-null.   *)
C27_ReviewFieldsFollowStatus ==
    \A i \in DOMAIN requests :
        /\ requests[i].status = PENDING
           => /\ requests[i].reviewed_by = None
              /\ requests[i].reviewed_at = NoTime
              /\ requests[i].review_feedback = None
        /\ requests[i].status \in {APPROVED, REJECTED}
           => /\ requests[i].reviewed_by # None
              /\ requests[i].reviewed_at # NoTime

(* A rejected request has just been revised: it is PENDING again with no   *)
(* trace of the review, beside a request that is under no review.          *)
C27_Witness ==
    /\ last.op = "revise"
    /\ last.outcome = "ok"
    /\ last.id \in DOMAIN requests
    /\ requests[last.id].status = PENDING
    /\ requests[last.id].reviewed_by = None
    /\ requests[last.id].reviewed_at = NoTime
    /\ requests[last.id].review_feedback = None

(* C28: over the whole lifetime of a stored request its id, submitted_by,  *)
(* prompt_type and workspace_id never change, and its current_content and  *)
(* proposed_content are changed by no operation other than a successful    *)
(* revise: approve and reject leave both unchanged.                        *)
C28_IdentityFixedContentByReviseOnly ==
    [][\A i \in DOMAIN requests \cap DOMAIN requests' :
           /\ requests'[i].id = requests[i].id
           /\ requests[i].id = i
           /\ requests'[i].submitted_by = requests[i].submitted_by
           /\ requests'[i].prompt_type = requests[i].prompt_type
           /\ requests'[i].workspace_id = requests[i].workspace_id
           /\ (\/ requests'[i].current_content # requests[i].current_content
               \/ requests'[i].proposed_content # requests[i].proposed_content)
              => /\ last'.op = "revise"
                 /\ last'.outcome = "ok"
                 /\ last'.id = i]_vars

(* A request has just been approved: it still holds the snapshot it was    *)
(* approved against, different from the content now live.                  *)
C28_Witness ==
    /\ last.op = "approve"
    /\ last.outcome = "ok"
    /\ last.id \in DOMAIN requests
    /\ requests[last.id].status = APPROVED
    /\ requests[last.id].current_content # requests[last.id].proposed_content
    /\ docs[requests[last.id].prompt_type] = requests[last.id].proposed_content
    /\ requests[last.id].id = last.id
    /\ requests[last.id].workspace_id = "organization"

(* C29: a successful withdraw is permanent even when it races with a       *)
(* review: if withdraw(r) and approve(r) or reject(r) run concurrently on  *)
(* a PENDING request r and withdraw returns without error, then in every   *)
(* later state no record with r's id exists and the live document does not *)
(* hold r's proposed_content as the effect of that approve.                *)
C29_WithdrawIsPermanent ==
    \A w \in Workers :
        (loc[w].op = "withdraw" /\ loc[w].result = "ok")
        => /\ loc[w].id \notin DOMAIN requests
           /\ \A v \in Workers \ {w} :
                  ~ /\ loc[v].op = "approve"
                    /\ loc[v].id = loc[w].id
                    /\ pc[v] \in {"approve_save", "idle"}
                    /\ loc[v].result \in {"none", "ok"}
                    /\ docs[loc[w].change_request.prompt_type]
                           = loc[w].change_request.proposed_content

(* The live document differs from the snapshot of the stored request i *)
Conflicting(i) ==
    load_current_content(docs, requests[i].prompt_type)
        # requests[i].current_content

(* The step gives the submitter of request i a PENDING request for i's     *)
(* prompt type whose snapshot is the live document.                        *)
ObtainsRequestAgainstCurrent(i) ==
    \E j \in DOMAIN requests' :
        /\ j \notin DOMAIN requests \/ requests'[j] # requests[j]
        /\ requests'[j].submitted_by = requests[i].submitted_by
        /\ requests'[j].prompt_type = requests[i].prompt_type
        /\ requests'[j].status = PENDING
        /\ requests'[j].current_content
               = load_current_content(docs', requests[i].prompt_type)

(* C30: after approve(r) fails with ChangeRequestConflictError, r is still *)
(* stored with status PENDING; from then on, as long as the live document  *)
(* differs from r.current_content, every approve(r) fails again, and as    *)
(* long as r stays PENDING a create by r's submitter for the same prompt   *)
(* type raises DuplicatePendingRequestError and revise(r) raises           *)
(* InvalidChangeRequestStateError, so the submitter can obtain a request   *)
(* against the current content only after r is withdrawn or rejected.      *)
C30_ConflictBlocksSubmitter ==
    [][\A i \in DOMAIN requests :
           /\ \A u \in Actors, f \in Feedbacks :
                  (Approve(i, u, f) /\ Conflicting(i))
                  => /\ last'.outcome = "ChangeRequestConflictError"
                     /\ requests' = requests
                     /\ docs' = docs
           /\ requests[i].status = PENDING
              => /\ \A c \in Contents2, d \in Descriptions2 :
                        Create(requests[i].submitted_by,
                               requests[i].prompt_type, c, d)
                        => /\ last'.outcome = "DuplicatePendingRequestError"
                           /\ requests' = requests
                 /\ \A c \in Contents2, d \in Descriptions2 :
                        Revise(i, c, d)
                        => /\ last'.outcome = "InvalidChangeRequestStateError"
                           /\ requests' = requests
           /\ (/\ requests[i].status = PENDING
               /\ Conflicting(i)
               /\ i \in DOMAIN requests'
               /\ requests'[i].status = PENDING)
              => ~ ObtainsRequestAgainstCurrent(i)]_vars

====
